---- MODULE Spec2Model ----
(***************************************************************************)
(* State-machine model of the finger game in src/asgmt1/main.py            *)
(* (class FingerGame with its nested class Statistics), and of             *)
(* merge_word_counts of src/asgmt2/main.py, a separate program with its    *)
(* own specification, MergeSpec.                                           *)
(*                                                                         *)
(* The five finger labels of the source are non-ASCII strings; the model   *)
(* writes them, in the order of available_fingers (lines 22-28), as        *)
(*   "thumb", "index", "middle", "ring", "little".                         *)
(* Python's None is written "None".                                        *)
(***************************************************************************)
EXTENDS Integers, Sequences, FiniteSets

VARIABLES
    pc,                \* position of the session: input, choose, judge, done, assert_failed
    user_input,        \* the line last read by __get_input / held by start
    computer_choice,   \* result of __get_computer_choice for the round in progress
    predicted_finger,  \* local of __get_computer_choice (prediction branches only)
    branch,            \* which of the four paths of __get_computer_choice was taken
    statistics,        \* the Statistics object
    output,            \* what __judge printed last: <<computer's finger, result>>
    win_lose_pairs,    \* the beats-relation field of the game object
    d1, d2,            \* asgmt2: the two word-count dictionaries given to the merge
    d3                 \* asgmt2: the dictionary merge_word_counts returned

vars == <<pc, user_input, computer_choice, predicted_finger, branch,
          statistics, output, win_lose_pairs, d1, d2, d3>>

\* the variables of asgmt2, which the game does not have
mergeVars == <<d1, d2, d3>>

\* the variables of the game but pc, which asgmt2 does not have
gameVars == <<user_input, computer_choice, predicted_finger, branch,
              statistics, output, win_lose_pairs>>

\* Number of rounds a session of the model may start.
MaxRounds == 5

None == "None"

AssertionError == "AssertionError"

exit_str == "exit"

available_fingers == <<"thumb", "index", "middle", "ring", "little">>

Range(s) == {s[i] : i \in DOMAIN s}

Fingers == Range(available_fingers)

\* Lines the user may type that are neither the exit token nor a finger.
InvalidLines == {"", "EXIT"}

Lines == Fingers \cup {exit_str} \cup InvalidLines

WinLosePairsBroken ==
    << <<"thumb", "index">>, <<"index", "middle">>, <<"middle", "ring">>,
       <<"ring", "little">> >>

WinLosePairs ==
    << <<"thumb", "index">>, <<"index", "middle">>, <<"middle", "ring">>,
       <<"ring", "little">>, <<"little", "thumb">> >>

\* Statistics.__init__
NewStatistics ==
    [ total_turn |-> 0,
      win_turn |-> 0,
      lose_turn |-> 0,
      draw_turn |-> 0,
      user_finger_after_winning |-> [f \in Fingers |-> 0],
      last_user_finger |-> None,
      last_user_win |-> FALSE ]

----------------------------------------------------------------------------
(* __get_input and the exit test of start *)

valid_input_any(line) == TRUE

\* the condition under which __get_input returns the line
valid_input(line) == line = exit_str \/ line \in Range(available_fingers)

is_exit_never(line) == FALSE

\* the test of start that ends the loop
is_exit(line) == line = exit_str

----------------------------------------------------------------------------
(* __get_winning_finger: the winner of the first pair whose loser is the   *)
(* predicted finger; the assertion when there is none.                     *)

get_winning_finger(pairs, finger) ==
    LET hits == {i \in DOMAIN pairs : pairs[i][2] = finger}
    IN  IF hits = {}
        THEN AssertionError
        ELSE pairs[CHOOSE i \in hits : \A j \in hits : i <= j][1]

----------------------------------------------------------------------------
(* sorted(d, key=d.get, reverse=True): a stable sort of the keys of the    *)
(* dictionary, in its iteration order (the order of available_fingers, in  *)
(* which __init__ inserted them), by decreasing count; keys of equal count *)
(* keep their order.                                                       *)

\* x put into a list sorted by decreasing count, behind every element whose
\* count is at least its own
insert_desc(sorted, x, key) ==
    SelectSeq(sorted, LAMBDA y : key[y] >= key[x])
        \o <<x>> \o SelectSeq(sorted, LAMBDA y : key[y] < key[x])

\* the same by increasing count
insert_asc(sorted, x, key) ==
    SelectSeq(sorted, LAMBDA y : key[y] <= key[x])
        \o <<x>> \o SelectSeq(sorted, LAMBDA y : key[y] > key[x])

RECURSIVE sorted_asc(_, _, _)
sorted_asc(keys, key, n) ==
    IF n = 0 THEN <<>>
    ELSE insert_asc(sorted_asc(keys, key, n - 1), keys[n], key)

\* the first n keys, sorted: each key in turn is inserted into the sorted
\* list of those before it
RECURSIVE sorted_reverse(_, _, _)
sorted_reverse(keys, key, n) ==
    IF n = 0 THEN <<>>
    ELSE insert_desc(sorted_reverse(keys, key, n - 1), keys[n], key)

predicted_fingers_unreversed(s) ==
    SubSeq(sorted_asc(available_fingers, s.user_finger_after_winning,
                      Len(available_fingers)), 1, 2)

\* the list predicted_fingers of the branch after a win
predicted_fingers(s) ==
    SubSeq(sorted_reverse(available_fingers, s.user_finger_after_winning,
                          Len(available_fingers)), 1, 2)

remaining_fingers_unfiltered(s) == available_fingers

\* the list remaining_fingers of the branch after a round that was not a win
remaining_fingers(s) ==
    SelectSeq(available_fingers, LAMBDA finger : finger /= s.last_user_finger)

----------------------------------------------------------------------------
(* __judge: the three flags it passes to update_stats *)

judge_flags_swapped(user_choice, choice, pairs) ==
    IF <<choice, user_choice>> \in Range(pairs)
    THEN [win |-> TRUE, draw |-> FALSE, lose |-> FALSE]
    ELSE IF <<user_choice, choice>> \in Range(pairs)
         THEN [win |-> FALSE, draw |-> FALSE, lose |-> TRUE]
         ELSE [win |-> FALSE, draw |-> TRUE, lose |-> FALSE]

judge_flags_no_draw(user_choice, choice, pairs) ==
    IF <<user_choice, choice>> \in Range(pairs)
    THEN [win |-> TRUE, draw |-> FALSE, lose |-> FALSE]
    ELSE IF <<choice, user_choice>> \in Range(pairs)
         THEN [win |-> FALSE, draw |-> FALSE, lose |-> TRUE]
         ELSE [win |-> FALSE, draw |-> FALSE, lose |-> FALSE]

judge_flags(user_choice, choice, pairs) ==
    IF <<user_choice, choice>> \in Range(pairs)
    THEN [win |-> TRUE, draw |-> FALSE, lose |-> FALSE]
    ELSE IF <<choice, user_choice>> \in Range(pairs)
         THEN [win |-> FALSE, draw |-> FALSE, lose |-> TRUE]
         ELSE [win |-> FALSE, draw |-> TRUE, lose |-> FALSE]

\* the result line printed by the branch of __judge that passed these flags
result_output(o) == IF o.win THEN "win" ELSE IF o.lose THEN "lose" ELSE "draw"

----------------------------------------------------------------------------
(* Statistics.update_stats, in the order of its statements *)

update_counters_total_on_draw(s, win, draw, lose) ==
    IF draw THEN [s EXCEPT !.total_turn = @ + 1, !.draw_turn = @ + 1]
    ELSE IF win THEN [s EXCEPT !.win_turn = @ + 1]
    ELSE IF lose THEN [s EXCEPT !.lose_turn = @ + 1]
    ELSE s

\* total_turn += 1 and the if / elif chain over draw, win, lose
update_counters(s, win, draw, lose) ==
    LET t == [s EXCEPT !.total_turn = @ + 1]
    IN  IF draw THEN [t EXCEPT !.draw_turn = @ + 1]
        ELSE IF win THEN [t EXCEPT !.win_turn = @ + 1]
        ELSE IF lose THEN [t EXCEPT !.lose_turn = @ + 1]
        ELSE t

\* FALSE exactly when the else branch with the assertion is taken
outcome_known(win, draw, lose) == draw \/ win \/ lose

update_after_winning_always(s, user_finger) ==
    [s EXCEPT !.user_finger_after_winning[user_finger] = @ + 1]

\* if self.last_user_win: self.user_finger_after_winning[user_finger] += 1
update_after_winning(s, user_finger) ==
    IF s.last_user_win
    THEN [s EXCEPT !.user_finger_after_winning[user_finger] = @ + 1]
    ELSE s

update_last_sticky(s, user_finger, win) ==
    [s EXCEPT !.last_user_finger = user_finger,
              !.last_user_win = s.last_user_win \/ win]

\* the two final assignments
update_last(s, user_finger, win) ==
    [s EXCEPT !.last_user_finger = user_finger, !.last_user_win = win]

update_stats_flag_first(s, user_finger, win, draw, lose) ==
    update_after_winning(
        update_last(update_counters(s, win, draw, lose), user_finger, win),
        user_finger)

update_stats(s, user_finger, win, draw, lose) ==
    update_last(
        update_after_winning(update_counters(s, win, draw, lose), user_finger),
        user_finger, win)

----------------------------------------------------------------------------
(* The session *)

Init ==
    /\ pc = "input"
    /\ user_input = None
    /\ computer_choice = None
    /\ predicted_finger = None
    /\ branch = None
    /\ statistics = NewStatistics
    /\ output = None
    /\ win_lose_pairs = WinLosePairs
    /\ d1 = None
    /\ d2 = None
    /\ d3 = None

\* One read of __get_input: an invalid line prints the error and reads again;
\* a valid line is returned to start, which ends the loop on the exit token
\* and otherwise goes on to the round.
GetInput ==
    /\ pc = "input"
    /\ \E line \in Lines :
        /\ statistics.total_turn >= MaxRounds => line \notin Fingers
        /\ user_input' = line
        /\ pc' = IF ~valid_input(line) THEN "input"
                 ELSE IF is_exit(line) THEN "done"
                 ELSE "choose"
    /\ UNCHANGED <<computer_choice, predicted_finger, branch, statistics,
                   output, win_lose_pairs>>
    /\ UNCHANGED mergeVars

\* The result of a prediction branch: the finger beating the predicted one,
\* or the assertion of __get_winning_finger.
Predicted(name, finger) ==
    LET w == get_winning_finger(win_lose_pairs, finger)
    IN  /\ branch' = name
        /\ predicted_finger' = finger
        /\ computer_choice' = w
        /\ pc' = IF w = AssertionError THEN "assert_failed" ELSE "judge"

Random(name) ==
    /\ branch' = name
    /\ predicted_finger' = None
    /\ \E c \in Range(available_fingers) : computer_choice' = c
    /\ pc' = "judge"

\* __get_computer_choice; below holds the outcome of random.random() < p
GetComputerChoice ==
    /\ pc = "choose"
    /\ \E below \in BOOLEAN :
        IF statistics.last_user_win
        THEN IF below
             THEN \E f \in Range(predicted_fingers(statistics)) :
                      Predicted("win_predict", f)
             ELSE Random("win_random")
        ELSE IF below
             THEN \E f \in Range(remaining_fingers(statistics)) :
                      Predicted("other_predict", f)
             ELSE Random("other_random")
    /\ UNCHANGED <<user_input, statistics, output, win_lose_pairs>>
    /\ UNCHANGED mergeVars

\* __judge with its call of update_stats; the locals of the round end with it
Judge ==
    /\ pc = "judge"
    /\ LET o == judge_flags(user_input, computer_choice, win_lose_pairs)
       IN  /\ output' = <<computer_choice, result_output(o)>>
           /\ IF outcome_known(o.win, o.draw, o.lose)
              THEN /\ statistics' =
                        update_stats(statistics, user_input, o.win, o.draw, o.lose)
                   /\ pc' = "input"
              ELSE /\ statistics' =
                        update_counters(statistics, o.win, o.draw, o.lose)
                   /\ pc' = "assert_failed"
    /\ computer_choice' = None
    /\ predicted_finger' = None
    /\ branch' = None
    /\ UNCHANGED <<user_input, win_lose_pairs>>
    /\ UNCHANGED mergeVars

Next == GetInput \/ GetComputerChoice \/ Judge

Spec == Init /\ [][Next]_vars

----------------------------------------------------------------------------
(* asgmt2: merge_word_counts, applied once to two dictionaries.  A         *)
(* dictionary is a function from its keys to their counts.                 *)

\* Largest count a dictionary of the model holds.
MaxCount == 2

\* the words the dictionaries of the model may hold
Words == {"a", "b", "c"}

WordCounts ==
    UNION {[keys -> 0 .. MaxCount] : keys \in SUBSET Words}

\* dict.get(key, default)
get(dict, key, default) == IF key \in DOMAIN dict THEN dict[key] ELSE default

merge_word_counts_overwrite(dict1, dict2) ==
    [key \in DOMAIN dict1 \cup DOMAIN dict2 |->
        IF key \in DOMAIN dict2 THEN dict2[key] ELSE dict1[key]]

merge_word_counts(dict1, dict2) ==
    [key \in DOMAIN dict1 \cup DOMAIN dict2 |->
        get(dict1, key, 0) + get(dict2, key, 0)]

MergeInit ==
    /\ pc = "merge"
    /\ d1 \in WordCounts
    /\ d2 \in WordCounts
    /\ d3 = None
    /\ user_input = None
    /\ computer_choice = None
    /\ predicted_finger = None
    /\ branch = None
    /\ statistics = None
    /\ output = None
    /\ win_lose_pairs = None

\* d3 = merge_word_counts(dict1=d1, dict2=d2)
MergeWordCounts ==
    /\ pc = "merge"
    /\ d3' = merge_word_counts(d1, d2)
    /\ pc' = "merged"
    /\ UNCHANGED <<d1, d2>>
    /\ UNCHANGED gameVars

MergeNext == MergeWordCounts

MergeSpec == MergeInit /\ [][MergeNext]_vars

----------------------------------------------------------------------------
(* Vocabulary of the properties, stated apart from the code's lookups: the *)
(* fingers are numbered in list order and each beats its successor, the    *)
(* last one beating the first.                                             *)

Index(f) == CHOOSE i \in DOMAIN available_fingers : available_fingers[i] = f

Beats(a, b) ==
    /\ a \in Fingers
    /\ b \in Fingers
    /\ Index(b) = (Index(a) % Len(available_fingers)) + 1

BeaterOf(f) == CHOOSE g \in Fingers : Beats(g, f)

RECURSIVE SumOver(_, _)
SumOver(count, S) ==
    IF S = {} THEN 0
    ELSE LET f == CHOOSE x \in S : TRUE
         IN  count[f] + SumOver(count, S \ {f})

AfterWinningSum == SumOver(statistics.user_finger_after_winning, Fingers)

\* a step that completes a round
RoundStep == pc = "judge" /\ pc' = "input"

----------------------------------------------------------------------------
\* C1: total_turn always equals win_turn + lose_turn + draw_turn; a completed
\* round adds exactly 1 to total_turn and to exactly one of the three outcome
\* counters, and no other step changes any counter, so that after N completed
\* rounds total_turn = N.
C1_RoundCounts ==
    [][ LET s == statistics
            t == statistics'
            d == <<t.win_turn - s.win_turn, t.lose_turn - s.lose_turn,
                   t.draw_turn - s.draw_turn>>
        IN  /\ s.total_turn = s.win_turn + s.lose_turn + s.draw_turn
            /\ t.total_turn = t.win_turn + t.lose_turn + t.draw_turn
            /\ pc = "judge" =>
                   /\ t.total_turn = s.total_turn + 1
                   /\ d \in {<<1, 0, 0>>, <<0, 1, 0>>, <<0, 0, 1>>}
            /\ pc /= "judge" =>
                   /\ t.total_turn = s.total_turn
                   /\ d = <<0, 0, 0>> ]_vars

C1_Witness ==
    /\ pc = "input"
    /\ statistics.total_turn = 3
    /\ statistics.win_turn = 1
    /\ statistics.lose_turn = 1
    /\ statistics.draw_turn = 1

----------------------------------------------------------------------------
\* The classification a round reports, read from the printed result and the
\* counter that moved.
Classified(result) ==
    /\ output' = <<computer_choice, result>>
    /\ statistics'.win_turn - statistics.win_turn = (IF result = "win" THEN 1 ELSE 0)
    /\ statistics'.lose_turn - statistics.lose_turn = (IF result = "lose" THEN 1 ELSE 0)
    /\ statistics'.draw_turn - statistics.draw_turn = (IF result = "draw" THEN 1 ELSE 0)

\* C2 (as amended): every pair of fingers is classified win when the user's
\* finger beats the computer's, lose when the computer's beats the user's and
\* draw otherwise; equal fingers always draw, and a draw means only that
\* neither finger beats the other (the fingers are equal or not neighbours in
\* the cycle).
C2_Judge ==
    [][ pc = "judge" =>
          /\ Beats(user_input, computer_choice) => Classified("win")
          /\ Beats(computer_choice, user_input) => Classified("lose")
          /\ (~Beats(user_input, computer_choice)
              /\ ~Beats(computer_choice, user_input)) => Classified("draw")
          /\ user_input = computer_choice => Classified("draw") ]_vars

\* C2 as claimed: the same classification, and every draw has equal fingers.
C2_Original ==
    [][ pc = "judge" =>
          /\ Beats(user_input, computer_choice) => Classified("win")
          /\ Beats(computer_choice, user_input) => Classified("lose")
          /\ (~Beats(user_input, computer_choice)
              /\ ~Beats(computer_choice, user_input)) => Classified("draw")
          /\ Classified("draw") => user_input = computer_choice ]_vars

\* a round was classified draw with two different fingers
C2_Witness ==
    /\ pc = "input"
    /\ statistics.total_turn = 1
    /\ statistics.draw_turn = 1
    /\ user_input = "thumb"
    /\ output = <<"middle", "draw">>

----------------------------------------------------------------------------
\* the fingers reached from f by following the relation n times
RECURSIVE Chain(_, _, _)
Chain(pairs, f, n) ==
    IF n = 0 THEN {f}
    ELSE {f} \cup UNION {Chain(pairs, p[2], n - 1) : p \in {q \in Range(pairs) : q[1] = f}}

IsFiveCycle(pairs) ==
    /\ Len(pairs) = Len(available_fingers)
    /\ \A p \in Range(pairs) : p[1] \in Fingers /\ p[2] \in Fingers /\ p[1] /= p[2]
    /\ \A f \in Fingers :
          /\ Cardinality({i \in DOMAIN pairs : pairs[i][2] = f}) = 1
          /\ Cardinality({i \in DOMAIN pairs : pairs[i][1] = f}) = 1
          /\ Chain(pairs, f, Len(available_fingers) - 1) = Fingers

\* C3: win_lose_pairs is a directed 5-cycle over available_fingers (every
\* finger is beaten by exactly one finger and beats exactly one, none beats
\* itself, one cycle goes through all five), and no step of a session
\* changes it.
C3_FiveCycle ==
    [][ /\ IsFiveCycle(win_lose_pairs)
        /\ win_lose_pairs' = win_lose_pairs ]_vars

C3_Witness ==
    /\ pc = "done"
    /\ statistics.total_turn = 2
    /\ IsFiveCycle(win_lose_pairs)

----------------------------------------------------------------------------
\* C4: a round that immediately follows a user win adds exactly 1 to
\* user_finger_after_winning at the finger played in this round and leaves
\* the other entries alone; any other round, the first included, and every
\* step that is not a round leave the whole mapping unchanged, whatever the
\* outcome of the current round.
C4_AfterWinning ==
    [][ LET before == statistics.user_finger_after_winning
            after == statistics'.user_finger_after_winning
        IN  IF RoundStep /\ statistics.last_user_win
            THEN after = [before EXCEPT ![user_input] = @ + 1]
            ELSE after = before ]_vars

\* lose, win, lose with "little": counted although the round itself was lost
C4_Witness ==
    /\ pc = "input"
    /\ statistics.total_turn = 3
    /\ statistics.win_turn = 1
    /\ statistics.lose_turn = 2
    /\ ~statistics.last_user_win
    /\ statistics.last_user_finger = "little"
    /\ statistics.user_finger_after_winning["little"] = 1
    /\ AfterWinningSum = 1

----------------------------------------------------------------------------
\* C5: the sum of user_finger_after_winning over the five fingers never
\* exceeds win_turn.
C5_SumAtMostWins == AfterWinningSum <= statistics.win_turn

C5_Witness ==
    /\ pc = "input"
    /\ statistics.win_turn = 2
    /\ AfterWinningSum = 2

----------------------------------------------------------------------------
\* C6: reading the exit token ends the session at once, from the first prompt
\* or after any number of rounds: the step goes to done, no computer choice
\* is made, nothing is judged or printed, Statistics keeps every field, and
\* nothing happens afterwards.
C6_Exit ==
    [][ /\ (pc = "input" /\ user_input' = exit_str) =>
              /\ pc' = "done"
              /\ statistics' = statistics
              /\ computer_choice' = None
              /\ branch' = None
              /\ output' = output
        /\ pc /= "done" ]_vars

C6_Witness ==
    /\ pc = "done"
    /\ user_input = exit_str
    /\ statistics.total_turn = 2
    /\ computer_choice = None

----------------------------------------------------------------------------
\* C7: a line that is neither the exit token nor a finger keeps the session
\* at the prompt with Statistics and the output unchanged and no round
\* started; the prompt is left only with the exit token or a finger, so the
\* Predictor and the Judge only ever run with a user finger of
\* available_fingers.
C7_Validator ==
    [][ /\ (pc = "input" /\ user_input' \notin Fingers \cup {exit_str}) =>
              /\ pc' = "input"
              /\ UNCHANGED <<statistics, output, computer_choice, branch>>
        /\ (pc = "input" /\ pc' /= "input") =>
              user_input' \in Fingers \cup {exit_str}
        /\ pc' \in {"choose", "judge"} => user_input' \in Fingers ]_vars

C7_Witness ==
    /\ pc = "input"
    /\ user_input = "EXIT"
    /\ statistics.total_turn = 1

----------------------------------------------------------------------------
ExactlyOne(o) ==
    Cardinality({k \in {"win", "lose", "draw"} : o[k]}) = 1

\* C8: no assertion fails in any session: every finger the Predictor can
\* pass to __get_winning_finger has a winning finger, in the first round and
\* in every later one, and the flags the Judge passes to update_stats have
\* exactly one of win, lose, draw set.
C8_NoAssertion ==
    /\ pc /= "assert_failed"
    /\ computer_choice /= AssertionError
    /\ pc = "choose" =>
          \A f \in Range(IF statistics.last_user_win
                         THEN predicted_fingers(statistics)
                         ELSE remaining_fingers(statistics)) :
              get_winning_finger(win_lose_pairs, f) \in Fingers
    /\ pc = "judge" =>
          ExactlyOne(judge_flags(user_input, computer_choice, win_lose_pairs))

C8_Witness ==
    /\ pc = "judge"
    /\ branch = "win_predict"
    /\ predicted_finger = "thumb"
    /\ computer_choice = "little"
    /\ statistics.total_turn = 3

----------------------------------------------------------------------------
\* g comes before f in the ranking by count: a higher count, or the same
\* count and an earlier place in the finger list
Outranks(g, f) ==
    LET count == statistics.user_finger_after_winning
    IN  \/ count[g] > count[f]
        \/ count[g] = count[f] /\ Index(g) < Index(f)

\* the two fingers of highest count, the finger list breaking ties
TopTwo == {f \in Fingers : Cardinality({g \in Fingers : Outranks(g, f)}) < 2}

\* the moves __get_computer_choice can return from this state on the given path
PossibleMoves(name) ==
    {c \in Fingers :
        ENABLED (GetComputerChoice /\ branch' = name /\ computer_choice' = c)}

\* the predictions __get_computer_choice can make from this state on the given path
PossiblePredictions(name) ==
    {f \in Fingers :
        ENABLED (GetComputerChoice /\ branch' = name /\ predicted_finger' = f)}

\* C9: after a user win, on the prediction path, the computer plays the
\* finger that beats one of the two fingers of highest user_finger_after_winning
\* count, ties broken by the order of the finger list: no finger outside the
\* pair has a strictly higher count than one inside it, and the moves possible
\* on that path are exactly the two fingers beating the pair.
C9_PredictAfterWin ==
    LET count == statistics.user_finger_after_winning
    IN  /\ Cardinality(TopTwo) = 2
        /\ \A f \in TopTwo : \A g \in Fingers \ TopTwo : count[g] <= count[f]
        /\ (pc = "choose" /\ statistics.last_user_win) =>
              /\ PossiblePredictions("win_predict") = TopTwo
              /\ PossibleMoves("win_predict") = {BeaterOf(f) : f \in TopTwo}
              /\ PossibleMoves("other_predict") = {}
        /\ (pc = "judge" /\ branch = "win_predict") =>
              /\ statistics.last_user_win
              /\ predicted_finger \in TopTwo
              /\ computer_choice = BeaterOf(predicted_finger)

\* counts thumb 1, index 0, middle 1, ring 0, little 1: of the three tied
\* fingers the list order keeps thumb and middle; the computer answers a
\* predicted middle with index
C9_Witness ==
    /\ pc = "judge"
    /\ branch = "win_predict"
    /\ statistics.user_finger_after_winning["thumb"] = 1
    /\ statistics.user_finger_after_winning["middle"] = 1
    /\ statistics.user_finger_after_winning["little"] = 1
    /\ TopTwo = {"thumb", "middle"}
    /\ predicted_finger = "middle"
    /\ computer_choice = "index"

----------------------------------------------------------------------------
\* C10: after a round that was not a user win, on the prediction path, the
\* predicted finger is any finger other than the user's last-played finger
\* and the computer plays the finger that beats it, so it never plays the
\* finger that beats the last-played finger; in the first round, with no
\* last-played finger, the prediction ranges over all five fingers.
C10_PredictOtherwise ==
    LET last == statistics.last_user_finger
    IN  /\ (pc = "choose" /\ ~statistics.last_user_win) =>
              /\ PossiblePredictions("other_predict") = Fingers \ {last}
              /\ PossibleMoves("other_predict") =
                     {BeaterOf(f) : f \in Fingers \ {last}}
              /\ PossibleMoves("win_predict") = {}
              /\ statistics.total_turn = 0 =>
                     PossiblePredictions("other_predict") = Fingers
        /\ (pc = "judge" /\ branch = "other_predict") =>
              /\ ~statistics.last_user_win
              /\ predicted_finger \in Fingers \ {last}
              /\ computer_choice = BeaterOf(predicted_finger)
              /\ last \in Fingers => computer_choice /= BeaterOf(last)
              /\ (statistics.total_turn = 0) = (last = None)

\* second round after a lost first round played with "index": the computer
\* predicts "middle" and plays "index"
C10_Witness ==
    /\ pc = "judge"
    /\ branch = "other_predict"
    /\ statistics.total_turn = 1
    /\ statistics.last_user_finger = "index"
    /\ predicted_finger = "middle"
    /\ computer_choice = "index"

----------------------------------------------------------------------------
\* C11: a completed round leaves in last_user_finger the finger the user
\* played in it and in last_user_win whether it was classified a win (false
\* after a lose or a draw); no other step changes either field; from fresh
\* Statistics a round in which the user's finger beats the computer's gives
\* total_turn 1, win_turn 1, lose_turn 0, draw_turn 0 and last_user_win true.
C11_LastRound ==
    [][ LET s == statistics
            t == statistics'
        IN  /\ RoundStep =>
                  /\ t.last_user_finger = user_input
                  /\ t.last_user_win = Beats(user_input, computer_choice)
                  /\ t.last_user_win = (output'[2] = "win")
                  /\ t.last_user_win = (t.win_turn = s.win_turn + 1)
            /\ ~RoundStep =>
                  /\ t.last_user_finger = s.last_user_finger
                  /\ t.last_user_win = s.last_user_win
            /\ (RoundStep /\ s = NewStatistics
                    /\ Beats(user_input, computer_choice)) =>
                  t = [NewStatistics EXCEPT !.total_turn = 1,
                                            !.win_turn = 1,
                                            !.last_user_finger = user_input,
                                            !.last_user_win = TRUE] ]_vars

\* the scenario of the first round: thumb against index
C11_Witness ==
    /\ pc = "input"
    /\ statistics.total_turn = 1
    /\ statistics.win_turn = 1
    /\ statistics.lose_turn = 0
    /\ statistics.draw_turn = 0
    /\ output = <<"index", "win">>
    /\ statistics.last_user_win
    /\ statistics.last_user_finger = "thumb"

----------------------------------------------------------------------------
\* C13: the sum of user_finger_after_winning over all fingers is win_turn - 1
\* while last_user_win is true and win_turn while it is false: every win is
\* counted once, by the round after it, and the latest win not yet.
C13_SumExact ==
    AfterWinningSum =
        statistics.win_turn - (IF statistics.last_user_win THEN 1 ELSE 0)

C13_Witness ==
    /\ pc = "input"
    /\ statistics.last_user_win
    /\ statistics.win_turn = 3
    /\ AfterWinningSum = 2

----------------------------------------------------------------------------
\* the sum of the counts of a dictionary
DictSum(dict) == SumOver(dict, DOMAIN dict)

\* the count of a word in a dictionary, a missing word counting as 0
CountOf(dict, word) == IF word \in DOMAIN dict THEN dict[word] ELSE 0

\* C12: the dictionary merge_word_counts returns has as keys exactly the keys
\* of dict1 and those of dict2, and as value of every key dict1's count plus
\* dict2's, a missing key counting as 0; so merging in the other order gives
\* the same dictionary, and its counts sum to the sums of both inputs.
C12_Merge ==
    pc = "merged" =>
        /\ DOMAIN d3 = DOMAIN d1 \cup DOMAIN d2
        /\ \A word \in Words :
              /\ word \in DOMAIN d3 <=> (word \in DOMAIN d1 \/ word \in DOMAIN d2)
              /\ CountOf(d3, word) = CountOf(d1, word) + CountOf(d2, word)
        /\ d3 = merge_word_counts(d2, d1)
        /\ DictSum(d3) = DictSum(d1) + DictSum(d2)

\* a shared word, a word of each side only, and a key that is present with
\* count 0
C12_Witness ==
    /\ pc = "merged"
    /\ d1 = [word \in {"a", "b"} |-> IF word = "a" THEN 2 ELSE 1]
    /\ d2 = [word \in {"a", "c"} |-> IF word = "a" THEN 1 ELSE 0]
    /\ d3 = [word \in {"a", "b", "c"} |->
                IF word = "a" THEN 3 ELSE IF word = "b" THEN 1 ELSE 0]

====
